---- MODULE Spec2Model ----
(***************************************************************************)
(* Verification model of the Kalman-filter track-fitting actor             *)
(* (Core/include/Acts/Fitter/KalmanActor.hpp).                             *)
(*                                                                         *)
(* One fit = one KalmanActor with its trajectory (trackStates), one result *)
(* object (fittedStates, processedStates, accessIndex) and the propagator  *)
(* state it is handed on every step (stepping, navigation).  The           *)
(* propagation engine alternates one step of its own (Propagate) with one  *)
(* call of the actor (Invoke = KalmanActor::operator()).                   *)
(***************************************************************************)
EXTENDS Integers, Sequences, FiniteSets, TLC

(***************************************************************************)
(* Bounds of the model                                                     *)
(***************************************************************************)
\* longest trajectory (number of TrackStates handed to one fit)
MaxStates == 2
\* number of actor invocations followed in one fit
MaxCalls == 3

(***************************************************************************)
(* Pointers                                                                *)
(***************************************************************************)
\* nullptr; Layer, Surface and Volume pointers are positive integers, and
\* the order of the integers is the order of the addresses
Null == 0

(***************************************************************************)
(* The detector the fits run in.  One record per Surface:                  *)
(*   layer      what Surface::associatedLayer() returns (Null: none)       *)
(*   intersects whether intersectionEstimate(...) yields an intersection   *)
(*   volume     the TrackingVolume that worldVolume->trackingVolume(       *)
(*              intersection) finds for the intersection point (Null: none)*)
(* and, per TrackingVolume, the Layer its associatedLayer(point) returns.  *)
(***************************************************************************)
SurfaceTable ==
  << [layer |-> 2,    intersects |-> FALSE, volume |-> Null],
     [layer |-> Null, intersects |-> TRUE,  volume |-> 1],
     [layer |-> Null, intersects |-> TRUE,  volume |-> 2],
     [layer |-> Null, intersects |-> FALSE, volume |-> 1],
     [layer |-> Null, intersects |-> TRUE,  volume |-> Null] >>

VolumeTable == << 1, 3 >>

Surfaces == 1..Len(SurfaceTable)

Layers ==
  ({SurfaceTable[s].layer : s \in Surfaces}
     \cup {VolumeTable[v] : v \in 1..Len(VolumeTable)}) \ {Null}

\* surface->associatedLayer()
associatedLayer(surface) == SurfaceTable[surface].layer

\* surface->intersectionEstimate(position, direction, navDir, false):
\* [valid, position]; the intersection point is identified with the surface
intersectionEstimate(surface, position, direction) ==
  [valid |-> SurfaceTable[surface].intersects, position |-> surface]

\* worldVolume->trackingVolume(intersection)
trackingVolume(intersection) == SurfaceTable[intersection].volume

\* layerVolume->associatedLayer(intersection)
volumeAssociatedLayer(layerVolume, intersection) == VolumeTable[layerVolume]

(***************************************************************************)
(* Vectors                                                                 *)
(***************************************************************************)
Dot(a, b) == a[1] * b[1] + a[2] * b[2] + a[3] * b[3]

\* integer square root
RECURSIVE ISqrtFrom(_, _)
ISqrtFrom(n, r) == IF (r + 1) * (r + 1) > n THEN r ELSE ISqrtFrom(n, r + 1)

\* Vector3D::norm()
Norm(v) == ISqrtFrom(Dot(v, v), 0)

\* Vector3D::normalized()
Normalized(v) == [i \in 1..3 |-> v[i] \div Norm(v)]

Scaled(v, k) == [i \in 1..3 |-> v[i] * k]

Plus(a, b) == [i \in 1..3 |-> a[i] + b[i]]

\* positions and momenta are Vector3D; a covariance matrix is abstracted to
\* a tag
Covs == {0, 1}

\* what the updator can return: no result, or updated parameters
NoResult == [ok |-> FALSE]

UpdatorResults ==
  { NoResult,
    [ok |-> TRUE, position |-> <<1, 0, 0>>, momentum |-> <<2, 0, 0>>,
     covariance |-> 1],
    [ok |-> TRUE, position |-> <<0, 0, 0>>, momentum |-> <<0, 0 - 3, 0>>,
     covariance |-> 0] }

(***************************************************************************)
(* Trajectories: sequences of TrackStates; a TrackState is known to the    *)
(* actor by the surface it lives on (detail::getSurface)                   *)
(***************************************************************************)
TrackStates == [surface : Surfaces]

RECURSIVE SeqsUpTo(_, _)
SeqsUpTo(S, n) ==
  IF n = 0 THEN {<< >>}
  ELSE LET shorter == SeqsUpTo(S, n - 1)
       IN shorter \cup {Append(q, x) : q \in shorter, x \in S}

Trajectories == SeqsUpTo(TrackStates, MaxStates)

getSurface(tState) == tState.surface

(***************************************************************************)
(* State                                                                   *)
(***************************************************************************)
VARIABLES
  trackStates,       \* KalmanActor::trackStates, the trajectory to be fitted
  fittedStates,      \* result.fittedStates
  processedStates,   \* result.processedStates
  accessIndex,       \* result.accessIndex: Surface -> position in fittedStates
  stepping,          \* state.stepping: [pos, dir, p, cov]
  currentSurface,    \* state.navigation.currentSurface (Null: none)
  worldVolume,       \* state.navigation.worldVolume is set
  externalSurfaces,  \* state.navigation.sequence.externalSurfaces
  targetReached,     \* the stop condition of the propagation
  pc,                \* whose turn it is: "engine" or "actor"
  calls,             \* actor invocations so far
  initCalls,         \* runs of initialize so far
  bindCalls,         \* calls of state.stepping.bind so far
  updatorCalls,      \* calls of m_updator so far
  visits,            \* per position of fittedStates: times handed to m_updator
  boundCov,          \* covariance of update()'s local boundState in the
                     \* last invocation (NoCov: bind was not called)
  updPar,            \* update()'s local updPar in the last invocation
  geometryQueries,   \* the surfaces initialize asked the geometry about:
                     \* [estimated, lookedUp]
  quiet              \* the same fit under a navigation that stops on the
                     \* measurement surfaces only: [fittedStates,
                     \* processedStates, accessIndex, externalSurfaces,
                     \* stepping, targetReached, calls]

\* Two fits side by side, each KalmanActor with the propagation it is
\* plugged into
VARIABLES
  fits,              \* fit -> [trackStates, fittedStates, processedStates,
                     \* accessIndex, externalSurfaces, stepping,
                     \* targetReached, calls]
  fed                \* fit -> what its invocations were given, in order:
                     \* << surface, tcov, out >>

\* KalmanActor::debugLog
VARIABLES
  options,           \* state.options: [debug, debugPfxWidth, debugMsgWidth,
                     \* debugString]
  navDir,            \* state.stepping.navDir
  logged             \* the last call of debugLog: [calls, debug, message,
                     \* produced, appended, before]

\* GeometryID
VARIABLES
  m_value,           \* GeometryID::m_value, 64 bits
  geoOps,            \* number of additions made to the identifier
  geoLast            \* the last operation on the identifier, what it was
                     \* given and what it returned

\* AbstractVolume
VARIABLES
  volumeBounds,        \* what volumeBounds().decomposeToSurfaces yields: the
                       \* surfaces [id, type] in the order of the bounds
  m_boundarySurfaces,  \* AbstractVolume::m_boundarySurfaces
  constructed          \* the constructor has run

\* Identifier
VARIABLES
  m_id,              \* Identifier::m_id, 64 bits
  idOps,             \* number of assignments made to the identifier
  idLast             \* the last operation on the identifier, what it was
                     \* given and what it returned

fitVars ==
  << trackStates, fittedStates, processedStates, accessIndex, stepping,
     currentSurface, worldVolume, externalSurfaces, targetReached, pc,
     calls, initCalls, bindCalls, updatorCalls, visits, boundCov,
     updPar, geometryQueries, quiet >>

twoVars == << fits, fed >>

debugVars == << options, navDir, logged >>

geoVars == << m_value, geoOps, geoLast >>

volumeVars == << volumeBounds, m_boundarySurfaces, constructed >>

identifierVars == << m_id, idOps, idLast >>

\* the objects that take no part in the single fit
aside == << twoVars, debugVars, geoVars, volumeVars, identifierVars >>

vars == << fitVars, aside >>

\* what a step of the two fits, and of debugLog, leaves alone
besideTwo == << fitVars, debugVars, geoVars, volumeVars, identifierVars >>

besideDebug == << fitVars, twoVars, geoVars, volumeVars, identifierVars >>

besideGeo == << fitVars, twoVars, debugVars, volumeVars, identifierVars >>

besideVolume == << fitVars, twoVars, debugVars, geoVars, identifierVars >>

besideIdentifier == << fitVars, twoVars, debugVars, geoVars, volumeVars >>

TwoIdle ==
  /\ fits = << >>
  /\ fed = << >>

DebugIdle ==
  /\ options = << >>
  /\ navDir = "forward"
  /\ logged = << >>

GeoIdle ==
  /\ m_value = << >>
  /\ geoOps = 0
  /\ geoLast = << >>

VolumeIdle ==
  /\ volumeBounds = << >>
  /\ m_boundarySurfaces = << >>
  /\ constructed = FALSE

IdentifierIdle ==
  /\ m_id = << >>
  /\ idOps = 0
  /\ idLast = << >>

AsideIdle ==
  /\ TwoIdle
  /\ DebugIdle
  /\ GeoIdle
  /\ VolumeIdle
  /\ IdentifierIdle

\* the local was not set in the last invocation
NotSet == [ok |-> FALSE]

NoCov == 0 - 1

(***************************************************************************)
(* std::multimap<const Layer*, const Surface*>: a sequence of              *)
(* <<layer, surface>> pairs ordered by layer; insert() puts the new pair   *)
(* behind the pairs of an equal key                                        *)
(***************************************************************************)
RECURSIVE UpperBound(_, _, _)
UpperBound(mm, key, i) ==
  IF i > Len(mm) \/ mm[i][1] > key THEN i ELSE UpperBound(mm, key, i + 1)

MultimapInsert(mm, pair) ==
  LET at == UpperBound(mm, pair[1], 1)
  IN SubSeq(mm, 1, at - 1) \o << pair >> \o SubSeq(mm, at, Len(mm))

\* std::map<const Surface*, size_t>: a function on the keys present;
\* m[key] = value inserts or overwrites
EmptyMap == [k \in {} |-> 0]

MapAssign(m, key, value) ==
  [k \in DOMAIN m \cup {key} |-> IF k = key THEN value ELSE m[k]]

(***************************************************************************)
(* KalmanActor::initialize                                                 *)
(***************************************************************************)
\* ResolveLayer looking the layer up without asking for a world volume
ResolveLayer_WithoutWorld(surface, st, world) ==
  LET layer == associatedLayer(surface)
  IN IF layer = Null
     THEN LET surfaceIntersection ==
                intersectionEstimate(surface, st.pos, st.dir)
          IN IF surfaceIntersection.valid
             THEN LET intersection == surfaceIntersection.position
                      layerVolume == trackingVolume(intersection)
                  IN IF layerVolume # Null
                     THEN volumeAssociatedLayer(layerVolume, intersection)
                     ELSE Null
             ELSE Null
     ELSE layer

\* lines 155-171: the layer of one surface
ResolveLayer(surface, st, world) ==
  LET layer == associatedLayer(surface)
  IN IF layer = Null
     THEN LET surfaceIntersection ==
                intersectionEstimate(surface, st.pos, st.dir)
          IN IF surfaceIntersection.valid /\ world
             THEN LET intersection == surfaceIntersection.position
                      layerVolume == trackingVolume(intersection)
                  IN IF layerVolume # Null
                     THEN volumeAssociatedLayer(layerVolume, intersection)
                     ELSE Null
             ELSE Null
     ELSE layer

\* lines 155-171: the questions the resolution of one surface puts to the
\* geometry: estimate (surface->intersectionEstimate was called) and lookup
\* (worldVolume->trackingVolume was called)
ResolveQueries(surface, st, world) ==
  LET layer == associatedLayer(surface)
      asked == layer = Null
  IN [estimate |-> asked,
      lookup |-> /\ asked
                 /\ intersectionEstimate(surface, st.pos, st.dir).valid
                 /\ world]

\* InitializeStep leaving an entry of accessIndex as it is when the surface
\* is already a key (std::map::insert in place of operator[])
InitializeStep_KeepsFirst(acc, surface, layer, stateIndex) ==
  IF layer # Null
  THEN [measurementSurfaces |->
          MultimapInsert(acc.measurementSurfaces, << layer, surface >>),
        accessIndex |->
          IF surface \in DOMAIN acc.accessIndex
          THEN acc.accessIndex
          ELSE MapAssign(acc.accessIndex, surface, stateIndex)]
  ELSE acc

\* InitializeStep recording the index after its increment
InitializeStep_OneBased(acc, surface, layer, stateIndex) ==
  IF layer # Null
  THEN [measurementSurfaces |->
          MultimapInsert(acc.measurementSurfaces, << layer, surface >>),
        accessIndex |-> MapAssign(acc.accessIndex, surface, stateIndex + 1)]
  ELSE acc

\* InitializeStep with an index that counts the states with a layer only
InitializeStep_CountsResolved(acc, surface, layer, stateIndex) ==
  IF layer # Null
  THEN [measurementSurfaces |->
          MultimapInsert(acc.measurementSurfaces, << layer, surface >>),
        accessIndex |->
          MapAssign(acc.accessIndex, surface, Len(acc.measurementSurfaces))]
  ELSE acc

\* lines 172-178: what one state adds to the two indices
\* (acc = [measurementSurfaces, accessIndex])
InitializeStep(acc, surface, layer, stateIndex) ==
  IF layer # Null
  THEN [measurementSurfaces |->
          MultimapInsert(acc.measurementSurfaces, << layer, surface >>),
        accessIndex |-> MapAssign(acc.accessIndex, surface, stateIndex)]
  ELSE acc

\* lines 150-180: the loop over result.fittedStates, from stateIndex on
\* (stateIndex counts from 0, as in the source)
RECURSIVE InitializeLoop(_, _, _, _, _)
InitializeLoop(fitted, stateIndex, acc, st, world) ==
  IF stateIndex >= Len(fitted)
  THEN acc
  ELSE LET surface == getSurface(fitted[stateIndex + 1])
           layer == ResolveLayer(surface, st, world)
       IN InitializeLoop(fitted, stateIndex + 1,
                         InitializeStep(acc, surface, layer, stateIndex),
                         st, world)

\* lines 143-183.  operator() and initialize are const member functions, so
\* std::move(trackStates) is a const rvalue and the assignment copies:
\* trackStates keeps its elements.  index is result.accessIndex at the call.
initialize(trk, index, st, world) ==
  LET done == InitializeLoop(trk, 0, [measurementSurfaces |-> << >>,
                                      accessIndex |-> index], st, world)
  IN [fittedStates |-> trk,
      accessIndex |-> done.accessIndex,
      externalSurfaces |-> done.measurementSurfaces]

(***************************************************************************)
(* The stepper (collaborator of the actor)                                 *)
(***************************************************************************)
\* state.stepping.bind(*surface, true): transports the covariance onto the
\* surface (tcov, chosen by the transport) and returns the bound parameters
\* of the running state there
bind(st, surface, tcov) ==
  [stepping |-> [st EXCEPT !.cov = tcov],
   boundState |-> [ok |-> TRUE, surface |-> surface, position |-> st.pos,
                   momentum |-> Scaled(st.dir, st.p), covariance |-> tcov]]

\* state.stepping.update(pos, dir, p)
steppingUpdate(st, uPos, uDir, uP) ==
  [st EXCEPT !.pos = uPos, !.dir = uDir, !.p = uP]

(***************************************************************************)
(* KalmanActor::update                                                     *)
(*   res  the result object [fittedStates, processedStates, accessIndex]   *)
(*   tcov the covariance the transport produces, out what m_updator returns*)
(* The value says what the call leaves behind: the counter, the stepper,   *)
(* the locals, and which collaborators were called (trackState is the      *)
(* position of the TrackState handed to m_updator, -1: none)               *)
(***************************************************************************)
\* what update() leaves behind when it does not reach the update (line 116)
Untouched(res, st) ==
  [processedStates |-> res.processedStates,
   stepping |-> st,
   boundCov |-> NoCov,
   updPar |-> NotSet,
   trackState |-> 0 - 1,
   binds |-> 0,
   updates |-> 0]

\* applyUpdate with the updated momentum handed on as it is, not normalised
applyUpdate_NotNormalised(st, out) ==
  IF out.ok
  THEN [steppingUpdate(st, out.position, out.momentum, Norm(out.momentum))
          EXCEPT !.cov = out.covariance]
  ELSE st

\* lines 124-129: the stepper after the updator has answered
applyUpdate(st, out) ==
  IF out.ok
  THEN LET updPos == out.position
           updMom == out.momentum
       IN [steppingUpdate(st, updPos, Normalized(updMom), Norm(updMom))
             EXCEPT !.cov = out.covariance]
  ELSE st

\* update counting the state only when the updator accepted it
update_CountsAccepted(surface, res, st, tcov, out) ==
  IF surface \in DOMAIN res.accessIndex
  THEN LET bound == bind(st, surface, tcov)
       IN [processedStates |->
             res.processedStates + (IF out.ok THEN 1 ELSE 0),
           stepping |-> applyUpdate(bound.stepping, out),
           boundCov |-> bound.boundState.covariance,
           updPar |-> out,
           trackState |-> res.accessIndex[surface],
           binds |-> 1,
           updates |-> 1]
  ELSE Untouched(res, st)

\* update counting every surface it is called with, found in accessIndex
\* or not
update_CountsEverySurface(surface, res, st, tcov, out) ==
  IF surface \in DOMAIN res.accessIndex
  THEN LET bound == bind(st, surface, tcov)
       IN [processedStates |-> res.processedStates + 1,
           stepping |-> applyUpdate(bound.stepping, out),
           boundCov |-> bound.boundState.covariance,
           updPar |-> out,
           trackState |-> res.accessIndex[surface],
           binds |-> 1,
           updates |-> 1]
  ELSE [Untouched(res, st) EXCEPT !.processedStates = @ + 1]

\* lines 110-133
update(surface, res, st, tcov, out) ==
  IF surface \in DOMAIN res.accessIndex
  THEN LET bound == bind(st, surface, tcov)
           index == res.accessIndex[surface]
           st2 == applyUpdate(bound.stepping, out)
       IN [processedStates |-> res.processedStates + 1,
           stepping |-> st2,
           boundCov |-> bound.boundState.covariance,
           updPar |-> out,
           trackState |-> index,
           binds |-> 1,
           updates |-> 1]
  ELSE Untouched(res, st)

(***************************************************************************)
(* KalmanActor::operator()                                                 *)
(***************************************************************************)
\* line 98: "if (processedStates == trackStates.size())", the comparison
\* the invocation ends with.  trackStates is the actor's member, which
\* initialize has copied from (not emptied): its size is the length of the
\* whole trajectory.  processedStates is read as result.processedStates.
allStatesHandled(trk, processed) == processed = Len(trk)

\* operatorCall counting an invocation without a surface as a processed
\* state
operatorCall_CountsNoSurface(trk, res, st, surface, world, ext, stop, tcov, out) ==
  LET doInit == res.fittedStates = << >>
      ini == IF doInit
             THEN initialize(trk, res.accessIndex, st, world)
             ELSE [fittedStates |-> res.fittedStates,
                   accessIndex |-> res.accessIndex,
                   externalSurfaces |-> ext]
      res1 == [res EXCEPT !.fittedStates = ini.fittedStates,
                          !.accessIndex = ini.accessIndex]
      upd == IF surface # Null
             THEN update(surface, res1, st, tcov, out)
             ELSE [Untouched(res1, st) EXCEPT !.processedStates = @ + 1]
  IN [fittedStates |-> ini.fittedStates,
      accessIndex |-> ini.accessIndex,
      externalSurfaces |-> ini.externalSurfaces,
      processedStates |-> upd.processedStates,
      stepping |-> upd.stepping,
      targetReached |-> stop,
      boundCov |-> upd.boundCov,
      updPar |-> upd.updPar,
      trackState |-> upd.trackState,
      inits |-> IF doInit THEN 1 ELSE 0,
      binds |-> upd.binds,
      updates |-> upd.updates]

\* operatorCall taking the surface it has updated out of accessIndex
operatorCall_ForgetsProcessed(trk, res, st, surface, world, ext, stop, tcov, out) ==
  LET doInit == res.fittedStates = << >>
      ini == IF doInit
             THEN initialize(trk, res.accessIndex, st, world)
             ELSE [fittedStates |-> res.fittedStates,
                   accessIndex |-> res.accessIndex,
                   externalSurfaces |-> ext]
      res1 == [res EXCEPT !.fittedStates = ini.fittedStates,
                          !.accessIndex = ini.accessIndex]
      upd == IF surface # Null
             THEN update(surface, res1, st, tcov, out)
             ELSE Untouched(res1, st)
  IN [fittedStates |-> ini.fittedStates,
      accessIndex |-> [s \in DOMAIN ini.accessIndex \
                              (IF upd.updates > 0 THEN {surface} ELSE {})
                         |-> ini.accessIndex[s]],
      externalSurfaces |-> ini.externalSurfaces,
      processedStates |-> upd.processedStates,
      stepping |-> upd.stepping,
      targetReached |-> stop,
      boundCov |-> upd.boundCov,
      updPar |-> upd.updPar,
      trackState |-> upd.trackState,
      inits |-> IF doInit THEN 1 ELSE 0,
      binds |-> upd.binds,
      updates |-> upd.updates]

\* lines 75-98, one invocation.  The source ends in the comparison of
\* line 98 and has no statement under it: nothing is assigned to the stop
\* condition, whatever the comparison yields.
operatorCall(trk, res, st, surface, world, ext, stop, tcov, out) ==
  LET doInit == res.fittedStates = << >>
      ini == IF doInit
             THEN initialize(trk, res.accessIndex, st, world)
             ELSE [fittedStates |-> res.fittedStates,
                   accessIndex |-> res.accessIndex,
                   externalSurfaces |-> ext]
      res1 == [res EXCEPT !.fittedStates = ini.fittedStates,
                          !.accessIndex = ini.accessIndex]
      upd == IF surface # Null
             THEN update(surface, res1, st, tcov, out)
             ELSE Untouched(res1, st)
  IN [fittedStates |-> ini.fittedStates,
      accessIndex |-> ini.accessIndex,
      externalSurfaces |-> ini.externalSurfaces,
      processedStates |-> upd.processedStates,
      stepping |-> upd.stepping,
      targetReached |-> stop,
      boundCov |-> upd.boundCov,
      updPar |-> upd.updPar,
      trackState |-> upd.trackState,
      inits |-> IF doInit THEN 1 ELSE 0,
      binds |-> upd.binds,
      updates |-> upd.updates]

(***************************************************************************)
(* The specification                                                       *)
(***************************************************************************)
StartStepping == [pos |-> <<0, 0, 0>>, dir |-> <<1, 0, 0>>, p |-> 1, cov |-> 0]

NoQueries == [estimated |-> {}, lookedUp |-> {}]

\* the geometry queries of a run of initialize over the trajectory
QueriesOf(trk, st, world) ==
  [estimated |-> {getSurface(trk[i]) : i \in
                    {j \in 1..Len(trk) :
                       ResolveQueries(getSurface(trk[j]), st, world).estimate}},
   lookedUp |-> {getSurface(trk[i]) : i \in
                   {j \in 1..Len(trk) :
                      ResolveQueries(getSurface(trk[j]), st, world).lookup}}]

\* The fit under a navigation that follows the hint: the actor is called
\* until it has handed its measurement surfaces over, and from then on only
\* where the navigation stops, on a surface of externalSurfaces
QuietStart ==
  [fittedStates |-> << >>, processedStates |-> 0, accessIndex |-> EmptyMap,
   externalSurfaces |-> << >>, stepping |-> StartStepping,
   targetReached |-> FALSE, calls |-> 0]

QuietStops(q, surface) ==
  \/ q.fittedStates = << >>
  \/ \E i \in DOMAIN q.externalSurfaces : q.externalSurfaces[i][2] = surface

\* the part of the way the engine covers in one step of the reporting run
QuietPropagate(q) ==
  IF q.targetReached THEN q
  ELSE [q EXCEPT !.stepping.pos = Plus(q.stepping.pos, q.stepping.dir)]

\* lines 75-98 for the quiet run, with the answers of the same collaborators
QuietInvoke(q, trk, surface, world, tcov, out) ==
  IF QuietStops(q, surface)
  THEN LET res == [fittedStates |-> q.fittedStates,
                   processedStates |-> q.processedStates,
                   accessIndex |-> q.accessIndex]
           after == operatorCall(trk, res, q.stepping, surface, world,
                                 q.externalSurfaces, q.targetReached,
                                 tcov, out)
       IN [fittedStates |-> after.fittedStates,
           processedStates |-> after.processedStates,
           accessIndex |-> after.accessIndex,
           externalSurfaces |-> after.externalSurfaces,
           stepping |-> after.stepping,
           targetReached |-> after.targetReached,
           calls |-> q.calls + 1]
  ELSE q

Init ==
  /\ trackStates \in Trajectories
  /\ worldVolume \in BOOLEAN
  /\ fittedStates = << >>
  /\ processedStates = 0
  /\ accessIndex = EmptyMap
  /\ stepping = StartStepping
  /\ currentSurface = Null
  /\ externalSurfaces = << >>
  /\ targetReached = FALSE
  /\ pc = "engine"
  /\ calls = 0
  /\ initCalls = 0
  /\ bindCalls = 0
  /\ updatorCalls = 0
  /\ visits = [i \in 0..(Len(trackStates) - 1) |-> 0]
  /\ boundCov = NoCov
  /\ updPar = NotSet
  /\ geometryQueries = NoQueries
  /\ quiet = QuietStart
  /\ AsideIdle

\* One step of the propagation engine: the stepper moves on (a straight-line
\* step of unit length), the navigation reports the surface reached (or
\* none); then the actor is called.  The engine stops stepping once the
\* stop condition is set.
Propagate ==
  /\ pc = "engine"
  /\ ~targetReached
  /\ calls < MaxCalls
  /\ \E surface \in Surfaces \cup {Null} : currentSurface' = surface
  /\ stepping' = [stepping EXCEPT !.pos = Plus(stepping.pos, stepping.dir)]
  /\ pc' = "actor"
  /\ boundCov' = NoCov
  /\ updPar' = NotSet
  /\ quiet' = QuietPropagate(quiet)
  /\ UNCHANGED << trackStates, fittedStates, processedStates, accessIndex,
                  worldVolume, externalSurfaces, targetReached, calls,
                  initCalls, bindCalls, updatorCalls, visits,
                  geometryQueries, aside >>

\* The transport and the updator answer only when update() reaches them,
\* that is when the reported surface is a key of the index the invocation
\* works with; otherwise there is nothing for them to choose
Reaches ==
  /\ currentSurface # Null
  /\ currentSurface \in
       DOMAIN (IF fittedStates = << >>
               THEN initialize(trackStates, accessIndex, stepping,
                               worldVolume).accessIndex
               ELSE accessIndex)

\* One invocation of the actor
Invoke ==
  /\ pc = "actor"
  /\ \E tcov \in IF Reaches THEN Covs ELSE {0},
        out \in IF Reaches THEN UpdatorResults ELSE {NoResult} :
       LET res == [fittedStates |-> fittedStates,
                   processedStates |-> processedStates,
                   accessIndex |-> accessIndex]
           after == operatorCall(trackStates, res, stepping, currentSurface,
                                 worldVolume, externalSurfaces, targetReached,
                                 tcov, out)
       IN /\ fittedStates' = after.fittedStates
          /\ accessIndex' = after.accessIndex
          /\ externalSurfaces' = after.externalSurfaces
          /\ processedStates' = after.processedStates
          /\ stepping' = after.stepping
          /\ targetReached' = after.targetReached
          /\ boundCov' = after.boundCov
          /\ updPar' = after.updPar
          /\ initCalls' = initCalls + after.inits
          /\ bindCalls' = bindCalls + after.binds
          /\ updatorCalls' = updatorCalls + after.updates
          /\ visits' = IF after.trackState >= 0
                       THEN [visits EXCEPT ![after.trackState] = @ + 1]
                       ELSE visits
          /\ geometryQueries' =
               IF after.inits > 0
               THEN QueriesOf(trackStates, stepping, worldVolume)
               ELSE geometryQueries
          /\ quiet' = QuietInvoke(quiet, trackStates, currentSurface,
                                  worldVolume, tcov, out)
  /\ calls' = calls + 1
  /\ pc' = "engine"
  /\ UNCHANGED << trackStates, currentSurface, worldVolume, aside >>

Next == Propagate \/ Invoke

Spec == Init /\ [][Next]_vars

(***************************************************************************)
(* Two fits: two KalmanActor instances, each called by its own propagation *)
(* with its own state and result objects; the invocations of the two       *)
(* interleave                                                              *)
(***************************************************************************)
MaxTurns == 3

\* the single fit is not running
FitIdle ==
  /\ trackStates = << >>
  /\ fittedStates = << >>
  /\ processedStates = 0
  /\ accessIndex = EmptyMap
  /\ stepping = StartStepping
  /\ currentSurface = Null
  /\ externalSurfaces = << >>
  /\ targetReached = FALSE
  /\ pc = "off"
  /\ calls = 0
  /\ initCalls = 0
  /\ bindCalls = 0
  /\ updatorCalls = 0
  /\ visits = << >>
  /\ boundCov = NoCov
  /\ updPar = NotSet
  /\ geometryQueries = NoQueries
  /\ quiet = QuietStart

\* the surfaces the two trajectories are made of
SurfacesOf == << {2, 4}, {3} >>

Fits == DOMAIN SurfacesOf

FitStart(trk) ==
  [trackStates |-> trk, fittedStates |-> << >>, processedStates |-> 0,
   accessIndex |-> EmptyMap, externalSurfaces |-> << >>,
   stepping |-> StartStepping, targetReached |-> FALSE, calls |-> 0]

\* one step of a fit's propagation and the invocation of its actor, on the
\* state and result objects of that propagation
FitTurn(f, world, surface, tcov, out) ==
  LET res == [fittedStates |-> f.fittedStates,
              processedStates |-> f.processedStates,
              accessIndex |-> f.accessIndex]
      st == [f.stepping EXCEPT !.pos = Plus(f.stepping.pos, f.stepping.dir)]
      after == operatorCall(f.trackStates, res, st, surface, world,
                            f.externalSurfaces, f.targetReached, tcov, out)
  IN [trackStates |-> f.trackStates,
      fittedStates |-> after.fittedStates,
      processedStates |-> after.processedStates,
      accessIndex |-> after.accessIndex,
      externalSurfaces |-> after.externalSurfaces,
      stepping |-> after.stepping,
      targetReached |-> after.targetReached,
      calls |-> f.calls + 1]

\* InvokeFit with one index that every result object refers to
InvokeFit_SharedIndex(fs, who, world, surface, tcov, out) ==
  LET mine == FitTurn(fs[who], world, surface, tcov, out)
  IN [f \in DOMAIN fs |->
        IF f = who THEN mine
        ELSE [fs[f] EXCEPT !.accessIndex = mine.accessIndex]]

\* lines 73-98 called on the state and result of propagation who
InvokeFit(fs, who, world, surface, tcov, out) ==
  [fs EXCEPT ![who] = FitTurn(fs[who], world, surface, tcov, out)]

FitReaches(f, world, surface) ==
  /\ surface # Null
  /\ surface \in
       DOMAIN (IF f.fittedStates = << >>
               THEN initialize(f.trackStates, f.accessIndex, f.stepping,
                               world).accessIndex
               ELSE f.accessIndex)

\* the fit of trajectory trk run by itself from the start and given the
\* answers of hist, one invocation after the other
RECURSIVE RunAlone(_, _, _)
RunAlone(trk, world, hist) ==
  IF hist = << >> THEN FitStart(trk)
  ELSE LET last == hist[Len(hist)]
       IN FitTurn(RunAlone(trk, world, SubSeq(hist, 1, Len(hist) - 1)),
                  world, last[1], last[2], last[3])

\* the answers of the transport and the updator in the two fits: a rejected
\* update, or an accepted one with the covariance transported as 1
TwoAnswers ==
  {<< 0, NoResult >>} \cup {<< 1, out >> : out \in UpdatorResults \ {NoResult}}

InitTwo ==
  /\ FitIdle
  /\ DebugIdle
  /\ GeoIdle
  /\ VolumeIdle
  /\ IdentifierIdle
  /\ worldVolume \in BOOLEAN
  /\ \E one \in SeqsUpTo([surface : SurfacesOf[1]], MaxStates),
        two \in SeqsUpTo([surface : SurfacesOf[2]], MaxStates) :
       fits = << FitStart(one), FitStart(two) >>
  /\ fed = [f \in Fits |-> << >>]

Turn(who) ==
  /\ ~fits[who].targetReached
  /\ fits[1].calls + fits[2].calls < MaxTurns
  /\ \E surface \in SurfacesOf[who] \cup {Null} :
       \E ans \in IF FitReaches(fits[who], worldVolume, surface)
                   THEN TwoAnswers ELSE {<< 0, NoResult >>} :
         /\ fits' = InvokeFit(fits, who, worldVolume, surface, ans[1], ans[2])
         /\ fed' = [fed EXCEPT ![who] = Append(@, << surface, ans[1], ans[2] >>)]
  /\ UNCHANGED besideTwo

TurnOne == Turn(1)

TurnTwo == Turn(2)

NextTwo == TurnOne \/ TurnTwo

SpecTwo == InitTwo /\ [][NextTwo]_vars

(***************************************************************************)
(* KalmanActor::debugLog.  Text is a sequence of characters.               *)
(***************************************************************************)
MaxMsg == 1
MaxLogs == 2

\* the characters a message is made of
MsgChars == {"m", "\n"}

\* what logAction() can return
Messages == SeqsUpTo(MsgChars, MaxMsg)

PfxWidths == {0, 12}

MsgWidths == {0, 2}

RECURSIVE Spaces(_)
Spaces(n) == IF n <= 0 THEN << >> ELSE << " " >> \o Spaces(n - 1)

\* std::setw(width) << text: filled with spaces on the left up to width
setw(width, text) == Spaces(width - Len(text)) \o text

\* debugLog calling logAction whether the flag is set or not
debugLog_Eager(opts, dir, logAction) ==
  LET ds == IF dir = "forward" THEN << "K", "-", ">" >>
            ELSE << "<", "-", "K" >>
      dstream ==
        ds \o setw(opts.debugPfxWidth,
                   << "K", "a", "l", "m", "a", "n", "A", "c", "t", "o", "r" >>)
           \o << " ", "|", " " >>
           \o setw(opts.debugMsgWidth, logAction) \o << "\n" >>
  IN IF opts.debug
     THEN [options |-> [opts EXCEPT !.debugString = @ \o dstream],
           produced |-> 1,
           appended |-> dstream]
     ELSE [options |-> opts, produced |-> 1, appended |-> << >>]

\* lines 197-211; logAction is what the producer returns when it is called,
\* produced the number of times it was called
debugLog(opts, dir, logAction) ==
  IF opts.debug
  THEN LET ds == IF dir = "forward" THEN << "K", "-", ">" >>
                 ELSE << "<", "-", "K" >>
           dstream ==
             ds \o setw(opts.debugPfxWidth,
                        << "K", "a", "l", "m", "a", "n", "A", "c", "t", "o",
                           "r" >>)
                \o << " ", "|", " " >>
                \o setw(opts.debugMsgWidth, logAction) \o << "\n" >>
       IN [options |-> [opts EXCEPT !.debugString = @ \o dstream],
           produced |-> 1,
           appended |-> dstream]
  ELSE [options |-> opts, produced |-> 0, appended |-> << >>]

InitDebug ==
  /\ FitIdle
  /\ worldVolume = FALSE
  /\ TwoIdle
  /\ GeoIdle
  /\ VolumeIdle
  /\ IdentifierIdle
  /\ options \in [debug : BOOLEAN, debugPfxWidth : PfxWidths,
                   debugMsgWidth : MsgWidths, debugString : {<< >>}]
  /\ navDir \in {"forward", "backward"}
  /\ logged = [calls |-> 0, debug |-> FALSE, message |-> << >>,
               produced |-> 0, appended |-> << >>, before |-> << >>]

\* a call of debugLog
DebugLog ==
  /\ logged.calls < MaxLogs
  /\ \E logAction \in Messages :
       LET after == debugLog(options, navDir, logAction)
       IN /\ options' = after.options
          /\ logged' = [calls |-> logged.calls + 1,
                        debug |-> options.debug,
                        message |-> logAction,
                        produced |-> after.produced,
                        appended |-> after.appended,
                        before |-> options.debugString]
  /\ UNCHANGED << navDir, besideDebug >>

\* the caller of the propagation switches the debug flag
SetDebug ==
  /\ options' = [options EXCEPT !.debug = ~@]
  /\ UNCHANGED << navDir, logged, besideDebug >>

NextDebug == DebugLog \/ SetDebug

SpecDebug == InitDebug /\ [][NextDebug]_vars

(***************************************************************************)
(* Properties                                                              *)
(***************************************************************************)
\* an invocation has just ended
Returned == pc = "engine" /\ calls > 0

\* the total expected state count
Total == Len(trackStates)

\* C1: at the end of every invocation the stop condition is set if and only
\* if processedStates equals the total expected state count
C1_StopIffAllProcessed ==
  Returned =>
    (targetReached <=> allStatesHandled(trackStates, processedStates))

\* C2: in an invocation whose update is accepted, the stepper ends with the
\* updated position, with a unit direction along the updated momentum, with
\* the norm of the updated momentum and with the updator's covariance, and
\* processedStates grows by exactly 1
C2_AcceptedUpdate ==
  [][(pc = "actor" /\ updPar'.ok) =>
       /\ currentSurface \in DOMAIN accessIndex'
       /\ stepping'.pos = updPar'.position
       /\ Dot(stepping'.dir, stepping'.dir) = 1
       /\ Scaled(stepping'.dir, stepping'.p) = updPar'.momentum
       /\ stepping'.p > 0
       /\ stepping'.cov = updPar'.covariance
       /\ processedStates' = processedStates + 1]_vars

\* C2 witness: an accepted update has turned the direction and changed the
\* momentum
C2_Witness ==
  /\ Returned
  /\ updPar.ok
  /\ stepping.dir = <<0, 0 - 1, 0>>
  /\ stepping.p = 3
  /\ stepping.pos = updPar.position

\* C3: in an invocation on a surface of accessIndex whose update is
\* rejected, processedStates grows by exactly 1, bind and the updator are
\* called exactly once, and the stepper keeps its position, direction and
\* momentum and has the covariance bind transported
C3_RejectedUpdate ==
  [][(pc = "actor" /\ currentSurface \in DOMAIN accessIndex' /\ ~updPar'.ok) =>
       /\ processedStates' = processedStates + 1
       /\ updatorCalls' = updatorCalls + 1
       /\ bindCalls' = bindCalls + 1
       /\ stepping'.pos = stepping.pos
       /\ stepping'.dir = stepping.dir
       /\ stepping'.p = stepping.p
       /\ boundCov' \in Covs
       /\ stepping'.cov = boundCov']_vars

\* C3 witness: a rejected update after an accepted one; the stepper holds
\* the transported covariance, which is not the one the updator gave before
C3_Witness ==
  /\ Returned
  /\ currentSurface \in DOMAIN accessIndex
  /\ ~updPar.ok
  /\ processedStates = 2
  /\ stepping.p = 3
  /\ stepping.cov = 1
  /\ boundCov = 1

\* C4: an invocation with no surface, or with a surface that is no key of
\* accessIndex, leaves processedStates and the stepper as they are and
\* calls neither bind nor the updator; once the fit is initialised it
\* leaves fittedStates, accessIndex and the measurement surfaces as they are
C4_UnknownSurfaceInert ==
  [][(pc = "actor" /\ currentSurface \notin DOMAIN accessIndex') =>
       /\ processedStates' = processedStates
       /\ stepping' = stepping
       /\ bindCalls' = bindCalls
       /\ updatorCalls' = updatorCalls
       /\ visits' = visits
       /\ fittedStates # << >> =>
            /\ fittedStates' = fittedStates
            /\ accessIndex' = accessIndex
            /\ externalSurfaces' = externalSurfaces]_vars

\* C4 witness: after an update, an invocation on a surface outside
\* accessIndex has returned
C4_Witness ==
  /\ Returned
  /\ calls = 2
  /\ processedStates = 1
  /\ currentSurface # Null
  /\ currentSurface \notin DOMAIN accessIndex
  /\ accessIndex # EmptyMap

\* C5: no TrackState is handed to the updator a second time (a revisit is
\* reported, not updated and counted again)
C5_NoSecondUpdate ==
  \A i \in DOMAIN visits : visits[i] <= 1

(***************************************************************************)
(* The layer resolution rule, read off the detector                        *)
(***************************************************************************)
\* the layer the rule gives the surface: its own, or else the one of the
\* volume at the intersection point; Null when there is none
LayerOf(s) ==
  IF SurfaceTable[s].layer # Null THEN SurfaceTable[s].layer
  ELSE IF /\ SurfaceTable[s].intersects
          /\ worldVolume
          /\ SurfaceTable[s].volume # Null
       THEN VolumeTable[SurfaceTable[s].volume]
       ELSE Null

Resolved(s) == LayerOf(s) # Null

SurfaceAt(i) == trackStates[i].surface

Range(q) == {q[i] : i \in DOMAIN q}

\* position (from 0) of the last state of the trajectory on surface s
LastOn(s) ==
  CHOOSE i \in 0..(Total - 1) :
    /\ SurfaceAt(i + 1) = s
    /\ \A j \in 0..(Total - 1) : SurfaceAt(j + 1) = s => j <= i

\* every surface of accessIndex has been reported and updated exactly once,
\* and nothing else was updated
EachIndexedOnce ==
  /\ \A s \in DOMAIN accessIndex : visits[accessIndex[s]] = 1
  /\ updatorCalls = Cardinality(DOMAIN accessIndex)

\* C6: in a fit of N states on N distinct resolved surfaces in which every
\* invocation so far reported one of them for the first time,
\* processedStates is the number of reports, the stop condition is set
\* exactly from the N-th report on, and after an accepted N-th update the
\* stepper has the position and covariance of that update
C6_EndToEnd ==
  ( /\ Returned
    /\ Total > 0
    /\ Cardinality(DOMAIN accessIndex) = Total
    /\ updatorCalls = calls
    /\ \A i \in DOMAIN visits : visits[i] <= 1 )
  => /\ processedStates = calls
     /\ targetReached <=> calls = Total
     /\ (calls = Total /\ updPar.ok) =>
          /\ stepping.pos = updPar.position
          /\ stepping.cov = updPar.covariance

\* C7: when some state of the trajectory has no resolved layer and every
\* surface of accessIndex (there is one at least) has been reported exactly
\* once, the stop condition is set
C7_StopsWithUnresolved ==
  ( /\ Returned
    /\ \E i \in 1..Total : SurfaceAt(i) \notin DOMAIN accessIndex
    /\ accessIndex # EmptyMap
    /\ EachIndexedOnce )
  => targetReached

\* C8: initialize has run exactly once as soon as the actor has been
\* invoked, however often it is invoked
C8_InitializedOnce ==
  calls >= 1 => initCalls = 1

\* what C9 says of the states without a resolved layer: they are in neither
\* index and are never handed to the updator
UnresolvedExcluded ==
  \A i \in 1..Total :
    ~Resolved(SurfaceAt(i)) =>
      /\ SurfaceAt(i) \notin DOMAIN accessIndex
      /\ \A pair \in Range(externalSurfaces) : pair[2] # SurfaceAt(i)
      /\ visits[i - 1] = 0

\* C9 as stated: after initialize every state with a resolved layer has its
\* surface mapped to its own position and its (layer, surface) pair in the
\* measurement surfaces; the unresolved states are excluded
C9_IndexOfEveryState ==
  initCalls >= 1 =>
    /\ fittedStates = trackStates
    /\ \A i \in 1..Total :
         Resolved(SurfaceAt(i)) =>
           /\ SurfaceAt(i) \in DOMAIN accessIndex
           /\ accessIndex[SurfaceAt(i)] = i - 1
           /\ << LayerOf(SurfaceAt(i)), SurfaceAt(i) >>
                \in Range(externalSurfaces)
    /\ UnresolvedExcluded

\* C9 amended: the surface of a state with a resolved layer is mapped to the
\* position of the last state of the trajectory on that surface
C9_IndexOfLastState ==
  initCalls >= 1 =>
    /\ fittedStates = trackStates
    /\ \A i \in 1..Total :
         Resolved(SurfaceAt(i)) =>
           /\ SurfaceAt(i) \in DOMAIN accessIndex
           /\ accessIndex[SurfaceAt(i)] = LastOn(SurfaceAt(i))
           /\ << LayerOf(SurfaceAt(i)), SurfaceAt(i) >>
                \in Range(externalSurfaces)
    /\ UnresolvedExcluded

\* C9 witness: a trajectory of a resolved and an unresolved state; the
\* resolved one was updated, then the surface of the unresolved one reported
C9_Witness ==
  /\ Returned
  /\ calls = 2
  /\ processedStates = 1
  /\ \E i, j \in 1..Total :
       /\ Resolved(SurfaceAt(i))
       /\ ~Resolved(SurfaceAt(j))
       /\ currentSurface = SurfaceAt(j)
       /\ accessIndex[SurfaceAt(i)] = i - 1

\* the orders the states of the trajectory can be handed over in
Reorderings(q) ==
  { [i \in 1..Len(q) |-> q[f[i]]] :
      f \in { g \in [1..Len(q) -> 1..Len(q)] :
                \A a, b \in 1..Len(q) : a # b => g[a] # g[b] } }

\* the surfaces of the trajectory resolve to pairwise distinct layers
DistinctLayers ==
  /\ \A i \in 1..Total : Resolved(SurfaceAt(i))
  /\ \A i, j \in 1..Total :
       i # j => LayerOf(SurfaceAt(i)) # LayerOf(SurfaceAt(j))

\* C10: for N states on surfaces of pairwise distinct layers, accessIndex
\* and the measurement surfaces have N entries each, and initialize on any
\* permutation of the trajectory yields the same (layer, surface) pairs and
\* maps every surface to its position in the permuted trajectory
C10_PermutationInvariant ==
  (initCalls >= 1 /\ DistinctLayers) =>
    /\ Cardinality(DOMAIN accessIndex) = Total
    /\ Len(externalSurfaces) = Total
    /\ \A q \in Reorderings(trackStates) :
         LET r == initialize(q, EmptyMap, stepping, worldVolume)
         IN /\ Len(r.externalSurfaces) = Total
            /\ Range(r.externalSurfaces) = Range(externalSurfaces)
            /\ DOMAIN r.accessIndex = DOMAIN accessIndex
            /\ \A i \in 1..Total : r.accessIndex[q[i].surface] = i - 1

\* C10 witness: two states handed over against the order of their layers
C10_Witness ==
  /\ Returned
  /\ Total = 2
  /\ DistinctLayers
  /\ externalSurfaces[1][2] = SurfaceAt(2)
  /\ accessIndex[SurfaceAt(2)] = 1

(***************************************************************************)
(* GeometryID: geo_id_value is uint64_t.  A value is the sequence of its   *)
(* four 16-bit words, the lowest first.                                    *)
(***************************************************************************)
Width == 64

WordBits == 16

Words == Width \div WordBits

Base == 2 ^ WordBits

\* a literal written as its sixteen hexadecimal digits, the highest first
FromHex(h) ==
  [i \in 1..Words |->
     LET top == Len(h) - (4 * i) + 1
     IN (h[top] * 4096) + (h[top + 1] * 256) + (h[top + 2] * 16) + h[top + 3]]

Zero == [i \in 1..Words |-> 0]

\* word i of x, 0 beyond the value
WordOf(x, i) == IF i \in 1..Words THEN x[i] ELSE 0

\* a & b on n bits
RECURSIVE AndBits(_, _, _)
AndBits(a, b, n) ==
  IF n = 0 THEN 0
  ELSE ((a % 2) * (b % 2)) + (2 * AndBits(a \div 2, b \div 2, n - 1))

\* x & y
BitAnd(x, y) == [i \in 1..Words |-> AndBits(x[i], y[i], WordBits)]

\* x >> s for s < 64
ShiftRight(x, s) ==
  LET q == s \div WordBits
      r == s % WordBits
  IN [i \in 1..Words |->
        (WordOf(x, i + q) \div (2 ^ r))
          + ((WordOf(x, i + q + 1) % (2 ^ r)) * (2 ^ (WordBits - r)))]

\* x << s for s < 64
ShiftLeft(x, s) ==
  LET q == s \div WordBits
      r == s % WordBits
  IN [i \in 1..Words |->
        ((WordOf(x, i - q) % (2 ^ (WordBits - r))) * (2 ^ r))
          + (WordOf(x, i - q - 1) \div (2 ^ (WordBits - r)))]

\* x + y in 64 bits: the carry out of the highest word is dropped
Plus64(x, y) ==
  LET carry[i \in 1..Words] ==
        IF i = 1 THEN 0 ELSE (x[i - 1] + y[i - 1] + carry[i - 1]) \div Base
  IN [i \in 1..Words |-> (x[i] + y[i] + carry[i]) % Base]

\* x < y, unsigned
Less64(x, y) ==
  \E i \in 1..Words :
    /\ x[i] < y[i]
    /\ \A j \in (i + 1)..Words : x[j] = y[j]

volume_mask == FromHex(<< 15, 15, 0, 0, 0, 0, 0, 0, 0, 0, 0, 0, 0, 0, 0, 0 >>)
volume_shift == 56
boundary_mask == FromHex(<< 0, 0, 15, 15, 0, 0, 0, 0, 0, 0, 0, 0, 0, 0, 0, 0 >>)
boundary_shift == 48
layer_mask == FromHex(<< 0, 0, 0, 0, 15, 15, 0, 0, 0, 0, 0, 0, 0, 0, 0, 0 >>)
layer_shift == 40
approach_mask == FromHex(<< 0, 0, 0, 0, 0, 0, 15, 15, 0, 0, 0, 0, 0, 0, 0, 0 >>)
approach_shift == 32
sensitive_mask == FromHex(<< 0, 0, 0, 0, 0, 0, 0, 0, 15, 15, 15, 15, 0, 0, 0, 0 >>)
sensitive_shift == 16
channel_mask == FromHex(<< 0, 0, 0, 0, 0, 0, 0, 0, 0, 0, 0, 0, 15, 15, 15, 15 >>)
channel_shift == 0

\* the subfields with their mask and shift
Fields ==
  [volume |-> [mask |-> volume_mask, shift |-> volume_shift],
   boundary |-> [mask |-> boundary_mask, shift |-> boundary_shift],
   layer |-> [mask |-> layer_mask, shift |-> layer_shift],
   approach |-> [mask |-> approach_mask, shift |-> approach_shift],
   sensitive |-> [mask |-> sensitive_mask, shift |-> sensitive_shift],
   channel |-> [mask |-> channel_mask, shift |-> channel_shift]]

\* operator+= written as an assignment
plusAssign_Assigns(raw, add_value) == add_value

\* lines 123-137: m_value += tddID.value(), m_value += add_value
plusAssign(raw, add_value) == Plus64(raw, add_value)

\* value() handing the masked bits out where they are, not shifted down
value_NotShifted(raw, mask, shift) ==
  IF mask # Zero THEN BitAnd(raw, mask) ELSE raw

\* lines 147-152 for a shift below the width of the value
value(raw, mask, shift) ==
  IF mask # Zero THEN ShiftRight(BitAnd(raw, mask), shift) ELSE raw

\* lines 147-152: what a call can return.  A shift by the width of the value
\* or more is undefined: the machine shifts by the low six bits of the count
\* or shifts everything out, and the compiler may fold either
valueOutcomes(raw, mask, shift) ==
  IF mask = Zero \/ shift < Width
  THEN {value(raw, mask, shift)}
  ELSE {ShiftRight(BitAnd(raw, mask), shift % Width), Zero}

\* operator< comparing the raw values as signed integers
less_Signed(one, two) ==
  LET negative(x) == x[Words] >= Base \div 2
  IN IF negative(one) # negative(two) THEN negative(one)
     ELSE Less64(one, two)

\* operator<, <=, >, >= (declared at lines 154-162): the comparison of the
\* raw values
less(one, two) == Less64(one, two)

lessEqual(one, two) == ~Less64(two, one)

greater(one, two) == Less64(two, one)

greaterEqual(one, two) == ~Less64(one, two)

MaxGeoOps == 2

One == FromHex(<< 0, 0, 0, 0, 0, 0, 0, 0, 0, 0, 0, 0, 0, 0, 0, 1 >>)

AllOnes == [i \in 1..Words |-> Base - 1]

\* the values added: the lowest and the highest value of every subfield, in
\* its place
AddSamples ==
  {ShiftLeft(One, Fields[f].shift) : f \in DOMAIN Fields}
    \cup {Fields[f].mask : f \in DOMAIN Fields}

RawSamples == {Zero, AllOnes} \cup AddSamples

\* the identifiers added and compared with
IdSamples == {Zero, AllOnes, One, channel_mask, volume_mask}

MaskSamples == {Zero, AllOnes, channel_mask, sensitive_mask, volume_mask}

ShiftSamples == {channel_shift, sensitive_shift, volume_shift, Width}

InitGeo ==
  /\ FitIdle
  /\ worldVolume = FALSE
  /\ TwoIdle
  /\ DebugIdle
  /\ VolumeIdle
  /\ IdentifierIdle
  /\ m_value \in RawSamples
  /\ geoOps = 0
  /\ geoLast = [op |-> "construct"]

\* the caller reads or compares after the identifier was made or added to:
\* a read leaves the identifier as it is, so that a second read in a row
\* finds what the first could have found
Written == geoLast.op \in {"construct", "add", "build"}

\* lines 124-129, operator+=(const GeometryID&)
AddId ==
  /\ geoOps < MaxGeoOps
  /\ \E tddID \in IdSamples :
       /\ m_value' = plusAssign(m_value, value(tddID, Zero, 0))
       /\ geoLast' = [op |-> "add", before |-> m_value, add_value |-> tddID]
  /\ geoOps' = geoOps + 1
  /\ UNCHANGED besideGeo

\* lines 132-137, operator+=(geo_id_value)
AddValue ==
  /\ geoOps < MaxGeoOps
  /\ \E add_value \in AddSamples :
       /\ m_value' = plusAssign(m_value, add_value)
       /\ geoLast' = [op |-> "add", before |-> m_value,
                      add_value |-> add_value]
  /\ geoOps' = geoOps + 1
  /\ UNCHANGED besideGeo

\* lines 147-152, value(mask, shift)
ReadValue ==
  /\ Written
  /\ \E mask \in MaskSamples, shift \in ShiftSamples :
       \E result \in valueOutcomes(m_value, mask, shift) :
         geoLast' = [op |-> "value", before |-> m_value, mask |-> mask,
                     shift |-> shift, result |-> result]
  /\ UNCHANGED << m_value, geoOps, besideGeo >>

\* the identifier compared with another
Compare ==
  /\ Written
  /\ \E two \in IdSamples :
       geoLast' = [op |-> "compare", one |-> m_value, two |-> two,
                   lt |-> less(m_value, two),
                   le |-> lessEqual(m_value, two),
                   gt |-> greater(m_value, two),
                   ge |-> greaterEqual(m_value, two)]
  /\ UNCHANGED << m_value, geoOps, besideGeo >>

NextGeo == AddId \/ AddValue \/ ReadValue \/ Compare

SpecGeo == InitGeo /\ [][NextGeo]_vars

(***************************************************************************)
(* GeometryID: identifiers made from the number of one subfield            *)
(***************************************************************************)
\* a number below 2^16 as a geo_id_value
FromNat(x) == [i \in 1..Words |-> IF i = 1 THEN x ELSE 0]

\* the highest number subfield f holds
FieldMax(f) == value(Fields[f].mask, Fields[f].mask, Fields[f].shift)[1]

\* numbers that fit subfield f: the lowest, the highest, the one with only
\* the top bit, and patterns of mixed bits
FieldSamples(f) ==
  {0, 1, FieldMax(f), (FieldMax(f) + 1) \div 2, FieldMax(f) \div 3,
   FieldMax(f) - 1}

InitLayout ==
  /\ FitIdle
  /\ worldVolume = FALSE
  /\ TwoIdle
  /\ DebugIdle
  /\ VolumeIdle
  /\ IdentifierIdle
  /\ m_value = Zero
  /\ geoOps = 0
  /\ geoLast = [op |-> "construct"]

\* line 110, the constructor from a ready-made value: the number x of
\* subfield f put in its place
Build ==
  /\ geoLast.op = "construct"
  /\ \E f \in DOMAIN Fields :
       \E x \in FieldSamples(f) :
         /\ m_value' = ShiftLeft(FromNat(x), Fields[f].shift)
         /\ geoLast' = [op |-> "build", field |-> f, x |-> x]
  /\ UNCHANGED << geoOps, besideGeo >>

NextLayout == Build \/ ReadValue

SpecLayout == InitLayout /\ [][NextLayout]_vars

(***************************************************************************)
(* AbstractVolume::createBoundarySurfaces                                  *)
(***************************************************************************)
MaxSurfaces == 4

\* the volume under construction, as its boundary surfaces refer to it
this == 1

\* Surface::type()
SurfaceTypes == {"Cylinder", "Disc", "Plane"}

\* the decompositions of bounds: up to MaxSurfaces surfaces, each an object
\* of its own
Decompositions ==
  UNION {{[i \in 1..n |-> [id |-> i, type |-> types[i]]] :
            types \in [1..n -> SurfaceTypes]} : n \in 0..MaxSurfaces}

\* lines 49-55 flipping every cylinder, whatever the counter says
BoundarySurface_EveryCylinder(sf, sfCounter, sfNumber) ==
  LET inner == IF sf.type = "Cylinder" THEN Null ELSE this
      outer == IF inner # Null THEN Null ELSE this
  IN [surface |-> sf, inner |-> inner, outer |-> outer]

\* lines 49-55 with the volume on both sides of a cylinder
BoundarySurface_BothSides(sf, sfCounter, sfNumber) ==
  LET inner == this
      outer == IF sf.type = "Cylinder" THEN this ELSE Null
  IN [surface |-> sf, inner |-> inner, outer |-> outer]

\* lines 49-55, the body of the loop for surface sf
BoundarySurface(sf, sfCounter, sfNumber) ==
  LET inner == IF sf.type = "Cylinder" /\ sfCounter = 3 /\ sfNumber > 3
               THEN Null ELSE this
      outer == IF inner # Null THEN Null ELSE this
  IN [surface |-> sf, inner |-> inner, outer |-> outer]

\* the loop putting every boundary surface in front of the ones before
RECURSIVE BoundaryLoop_PushFront(_, _, _, _, _)
BoundaryLoop_PushFront(surfaces, next, sfCounter, sfNumber, boundaries) ==
  IF next > Len(surfaces) THEN boundaries
  ELSE BoundaryLoop_PushFront(
         surfaces, next + 1, sfCounter, sfNumber,
         << BoundarySurface(surfaces[next], sfCounter, sfNumber) >>
           \o boundaries)

\* lines 48-56, the loop from surface next on.  No statement of the loop
\* assigns to sfCounter: every surface is handled with the value the
\* counter was given before the loop.
RECURSIVE BoundaryLoop(_, _, _, _, _)
BoundaryLoop(surfaces, next, sfCounter, sfNumber, boundaries) ==
  IF next > Len(surfaces) THEN boundaries
  ELSE BoundaryLoop(
         surfaces, next + 1, sfCounter, sfNumber,
         Append(boundaries,
                BoundarySurface(surfaces[next], sfCounter, sfNumber)))

\* lines 37-57
createBoundarySurfaces(surfaces, boundaries) ==
  LET sfCounter == 0
      sfNumber == Len(surfaces)
  IN BoundaryLoop(surfaces, 1, sfCounter, sfNumber, boundaries)

InitVolume ==
  /\ FitIdle
  /\ worldVolume = FALSE
  /\ TwoIdle
  /\ DebugIdle
  /\ GeoIdle
  /\ IdentifierIdle
  /\ volumeBounds \in Decompositions
  /\ m_boundarySurfaces = << >>
  /\ constructed = FALSE

\* lines 19-25, the constructor
Construct ==
  /\ ~constructed
  /\ m_boundarySurfaces' =
       createBoundarySurfaces(volumeBounds, m_boundarySurfaces)
  /\ constructed' = TRUE
  /\ UNCHANGED << volumeBounds, besideVolume >>

NextVolume == Construct

SpecVolume == InitVolume /\ [][NextVolume]_vars

(***************************************************************************)
(* Identifier: value_type is unsigned long long, taken as 64 bits and held *)
(* like geo_id_value                                                       *)
(***************************************************************************)
MaxIdOps == 2

\* a | b on n bits
RECURSIVE OrBits(_, _, _)
OrBits(a, b, n) ==
  IF n = 0 THEN 0
  ELSE (((a % 2) + (b % 2) + 1) \div 2) + (2 * OrBits(a \div 2, b \div 2, n - 1))

\* x | y
BitOr(x, y) == [i \in 1..Words |-> OrBits(x[i], y[i], WordBits)]

\* line 135: ~(static_cast<value_type>(0))
max_value == [i \in 1..Words |-> Base - 1]

\* line 42: the highest bit alone
MAX_BIT == ShiftLeft(One, Width - 1)

\* the values identifiers are made of and changed with
IdValues ==
  {Zero, One, MAX_BIT, max_value, BitAnd(max_value, sensitive_mask),
   ShiftRight(max_value, 1), ShiftLeft(max_value, 1)}

\* is_valid() taking the value zero for the invalid one
is_valid_Zero(id) == ~(Zero = id)

\* lines 235-239
is_valid(id) == ~(max_value = id)

\* lines 193-232: ==, !=, <, >, <=, >= on m_id
idEqual(id, other) == id = other

idNotEqual(id, other) == id # other

idLess(id, other) == Less64(id, other)

idGreater(id, other) == Less64(other, id)

idLessEqual(id, other) == Less64(id, other) \/ id = other

idGreaterEqual(id, other) == Less64(other, id) \/ id = other

\* lines 144-156: the default constructor, or the one from a value (or from
\* another identifier)
InitIdentifier ==
  /\ FitIdle
  /\ worldVolume = FALSE
  /\ TwoIdle
  /\ DebugIdle
  /\ GeoIdle
  /\ VolumeIdle
  /\ idOps = 0
  /\ \/ /\ m_id = max_value
        /\ idLast = [op |-> "default"]
     \/ /\ m_id \in IdValues
        /\ idLast = [op |-> "construct"]

\* lines 161-168, operator=(const Identifier&)
AssignIdentifier ==
  /\ idOps < MaxIdOps
  /\ \E other \in IdValues :
       /\ m_id' = other
       /\ idLast' = [op |-> "assign", value |-> other, before |-> m_id]
  /\ idOps' = idOps + 1
  /\ UNCHANGED besideIdentifier

\* lines 170-175, operator=(value_type)
AssignValue ==
  /\ idOps < MaxIdOps
  /\ \E v \in IdValues :
       /\ m_id' = v
       /\ idLast' = [op |-> "assign", value |-> v, before |-> m_id]
  /\ idOps' = idOps + 1
  /\ UNCHANGED besideIdentifier

\* lines 177-182, operator|=
OrAssign ==
  /\ idOps < MaxIdOps
  /\ \E v \in IdValues :
       /\ m_id' = BitOr(m_id, v)
       /\ idLast' = [op |-> "or", value |-> v, before |-> m_id]
  /\ idOps' = idOps + 1
  /\ UNCHANGED besideIdentifier

\* lines 184-189, operator&=
AndAssign ==
  /\ idOps < MaxIdOps
  /\ \E v \in IdValues :
       /\ m_id' = BitAnd(m_id, v)
       /\ idLast' = [op |-> "and", value |-> v, before |-> m_id]
  /\ idOps' = idOps + 1
  /\ UNCHANGED besideIdentifier

\* the caller asks after the identifier was made or assigned to
IdWritten == idLast.op \in {"default", "construct", "assign", "or", "and"}

\* lines 235-239, is_valid()
IsValid ==
  /\ IdWritten
  /\ idLast' = [op |-> "is_valid", result |-> is_valid(m_id), after |-> idLast]
  /\ UNCHANGED << m_id, idOps, besideIdentifier >>

\* lines 193-232, the comparisons with another identifier
CompareIdentifier ==
  /\ IdWritten
  /\ \E other \in IdValues :
       idLast' = [op |-> "compare", id |-> m_id, other |-> other,
                  eq |-> idEqual(m_id, other),
                  ne |-> idNotEqual(m_id, other),
                  lt |-> idLess(m_id, other),
                  gt |-> idGreater(m_id, other),
                  le |-> idLessEqual(m_id, other),
                  ge |-> idGreaterEqual(m_id, other)]
  /\ UNCHANGED << m_id, idOps, besideIdentifier >>

NextIdentifier ==
  \/ AssignIdentifier
  \/ AssignValue
  \/ OrAssign
  \/ AndAssign
  \/ IsValid
  \/ CompareIdentifier

SpecIdentifier == InitIdentifier /\ [][NextIdentifier]_vars

(***************************************************************************)
(* C11: the layer resolution rule of initialize                            *)
(***************************************************************************)
PairsOf(s) == {pair \in Range(externalSurfaces) : pair[2] = s}

\* C11: after initialize, a surface that carries an associated layer is
\* filed under that layer and the geometry was asked neither for an
\* intersection estimate nor for a volume on its behalf; a surface without
\* one had its intersection estimated, had the volume looked up only when
\* the estimate is valid and a world volume exists, and is filed under the
\* layer of the containing volume, or under none when there is no
\* intersection, no world volume or no containing volume
C11_LayerResolution ==
  initCalls >= 1 =>
    \A i \in 1..Total :
      LET s == SurfaceAt(i)
          own == SurfaceTable[s].layer
          hit == SurfaceTable[s].intersects
          vol == SurfaceTable[s].volume
      IN /\ own # Null =>
              /\ s \notin geometryQueries.estimated
              /\ s \notin geometryQueries.lookedUp
              /\ PairsOf(s) = {<<own, s>>}
         /\ own = Null =>
              /\ s \in geometryQueries.estimated
              /\ s \in geometryQueries.lookedUp <=> (hit /\ worldVolume)
              /\ PairsOf(s) = IF hit /\ worldVolume /\ vol # Null
                              THEN {<<VolumeTable[vol], s>>}
                              ELSE {}

\* initialize has run over a trajectory with a surface that carries its
\* layer and a surface resolved through the geometry
C11_Witness ==
  /\ initCalls >= 1
  /\ \E i, j \in 1..Total :
       /\ SurfaceTable[SurfaceAt(i)].layer # Null
       /\ SurfaceTable[SurfaceAt(j)].layer = Null
       /\ PairsOf(SurfaceAt(j)) # {}
       /\ SurfaceAt(j) \in geometryQueries.lookedUp

\* initialize has run without a world volume over a surface that has an
\* intersection and no layer of its own
C11_WitnessNoWorld ==
  /\ initCalls >= 1
  /\ ~worldVolume
  /\ \E i \in 1..Total :
       /\ SurfaceTable[SurfaceAt(i)].layer = Null
       /\ SurfaceTable[SurfaceAt(i)].intersects
       /\ PairsOf(SurfaceAt(i)) = {}

Lines(text) == Cardinality({i \in DOMAIN text : text[i] = "\n"})

\* C14 as stated: the producer is called in a call of debugLog exactly when
\* the debug flag is set at the call; with the flag not set the debug string
\* is left as it is, with the flag set exactly one line is appended to it
C14_OneLinePerCall ==
  logged.calls > 0 =>
    IF logged.debug
    THEN /\ logged.produced = 1
         /\ options.debugString = logged.before \o logged.appended
         /\ Lines(logged.appended) = 1
    ELSE /\ logged.produced = 0
         /\ options.debugString = logged.before

\* C14: the producer is called in a call of debugLog exactly when the debug
\* flag is set at the call, and then once; with the flag not set the debug
\* string is left as it is, with the flag set one entry that ends the line
\* is appended to it, which holds the message as the producer returned it:
\* one line when the message has no line end in it, and one line more for
\* every line end of the message
C14_OneEntryPerCall ==
  logged.calls > 0 =>
    IF logged.debug
    THEN /\ logged.produced = 1
         /\ options.debugString = logged.before \o logged.appended
         /\ logged.appended[Len(logged.appended)] = "\n"
         /\ SubSeq(logged.appended,
                   Len(logged.appended) - Len(logged.message),
                   Len(logged.appended) - 1) = logged.message
         /\ Lines(logged.appended) = 1 + Lines(logged.message)
    ELSE /\ logged.produced = 0
         /\ options.debugString = logged.before

\* debugLog was called with the flag set and a message, after a call with
\* the flag not set
C14_Witness ==
  /\ logged.calls = 2
  /\ logged.debug
  /\ logged.message # << >>
  /\ logged.before = << >>
  /\ Lines(options.debugString) = 1

(***************************************************************************)
(* C15, C16, C17: GeometryID                                               *)
(***************************************************************************)
\* the number in subfield f of raw
FieldOf(raw, f) == value(raw, Fields[f].mask, Fields[f].shift)[1]

\* a has no bit outside subfield f
Confined(a, f) == BitAnd(a, Fields[f].mask) = a

\* C15 as stated: after v += a with a confined to the mask of subfield f2,
\* every other subfield f1 of v reads through its mask and shift as it did
\* before the addition
C15_FieldIsolation ==
  geoLast.op = "add" =>
    \A f1, f2 \in DOMAIN Fields :
      (f1 # f2 /\ Confined(geoLast.add_value, f2)) =>
        FieldOf(m_value, f1) = FieldOf(geoLast.before, f1)

\* the sum of subfield f2 of v and of a is a number of that subfield
FitsField(v, a, f2) ==
  FieldOf(v, f2) + FieldOf(a, f2) <= FieldOf(Fields[f2].mask, f2)

\* C15: after v += a with a confined to the mask of subfield f2, and the
\* sum of the two numbers in f2 no more than f2 can hold, f2 holds the sum
\* and every other subfield f1 reads as before the addition
C15_FieldIsolationNoCarry ==
  geoLast.op = "add" =>
    \A f1, f2 \in DOMAIN Fields :
      (/\ f1 # f2
       /\ Confined(geoLast.add_value, f2)
       /\ FitsField(geoLast.before, geoLast.add_value, f2)) =>
        /\ FieldOf(m_value, f1) = FieldOf(geoLast.before, f1)
        /\ FieldOf(m_value, f2) =
             FieldOf(geoLast.before, f2) + FieldOf(geoLast.add_value, f2)

\* a value of one subfield was added without a carry to an identifier with
\* a number in another subfield
C15_Witness ==
  /\ geoLast.op = "add"
  /\ \E f1, f2 \in DOMAIN Fields :
       /\ f1 # f2
       /\ Confined(geoLast.add_value, f2)
       /\ geoLast.add_value # Zero
       /\ FitsField(geoLast.before, geoLast.add_value, f2)
       /\ FieldOf(geoLast.before, f1) # 0
       /\ FieldOf(m_value, f2) # 0

\* x >> s as a number: nothing is left of x from 64 places on
RightShifted(x, s) == IF s >= Width THEN Zero ELSE ShiftRight(x, s)

BitAt(x, k) == (x[(k \div WordBits) + 1] \div (2 ^ (k % WordBits))) % 2

\* a < b as unsigned 64-bit integers: b has the highest bit they differ in
RawLess(a, b) ==
  \E k \in 0..(Width - 1) :
    /\ BitAt(a, k) < BitAt(b, k)
    /\ \A j \in (k + 1)..(Width - 1) : BitAt(a, j) = BitAt(b, j)

\* C17: a < b holds iff raw(a) < raw(b) as unsigned 64-bit integers, and
\* <=, > and >= are the unsigned comparisons of the raw values likewise, so
\* that exactly one of a < b, a > b and raw(a) = raw(b) holds
C17_UnsignedOrdering ==
  geoLast.op = "compare" =>
    LET a == geoLast.one
        b == geoLast.two
    IN /\ geoLast.lt <=> RawLess(a, b)
       /\ geoLast.le <=> (RawLess(a, b) \/ a = b)
       /\ geoLast.gt <=> RawLess(b, a)
       /\ geoLast.ge <=> (RawLess(b, a) \/ a = b)
       /\ \/ geoLast.lt /\ ~geoLast.gt /\ a # b
          \/ ~geoLast.lt /\ geoLast.gt /\ a # b
          \/ ~geoLast.lt /\ ~geoLast.gt /\ a = b

\* an identifier with the highest bit set was compared with one without it
C17_Witness ==
  /\ geoLast.op = "compare"
  /\ BitAt(geoLast.one, Width - 1) = 1
  /\ BitAt(geoLast.two, Width - 1) = 0
  /\ geoLast.two # Zero
  /\ geoLast.gt

(***************************************************************************)
(* C18, C19, C20: createBoundarySurfaces                                   *)
(***************************************************************************)
\* the surface at index 3 (the fourth) of more than three is a cylinder
CylinderAtThree ==
  /\ Len(volumeBounds) > 3
  /\ volumeBounds[4].type = "Cylinder"

\* boundary surface i (from 1) has the volume inside and nothing outside
Plain(i) ==
  /\ m_boundarySurfaces[i].inner = this
  /\ m_boundarySurfaces[i].outer = Null

\* C18: when the bounds decompose into more than three surfaces and the one
\* at index 3 is a cylinder, the boundary surface of index 3 has no inner
\* volume and the volume as its outer one, and every other boundary surface
\* has the volume as inner and no outer one
C18_CylinderFlipped ==
  (constructed /\ CylinderAtThree) =>
    /\ m_boundarySurfaces[4].inner = Null
    /\ m_boundarySurfaces[4].outer = this
    /\ \A i \in DOMAIN m_boundarySurfaces : i # 4 => Plain(i)

\* C19: when the bounds decompose into at most three surfaces, or the one
\* at index 3 is not a cylinder, every boundary surface has the volume as
\* inner and no outer one; and a cylinder at an index other than 3 is never
\* flipped
C19_DefaultAttribution ==
  constructed =>
    /\ ~CylinderAtThree => \A i \in DOMAIN m_boundarySurfaces : Plain(i)
    /\ \A i \in DOMAIN m_boundarySurfaces :
         (i # 4 /\ volumeBounds[i].type = "Cylinder") => Plain(i)

\* a volume was constructed whose bounds have a cylinder, not at index 3,
\* among surfaces of other types
C19_Witness ==
  /\ constructed
  /\ ~CylinderAtThree
  /\ Len(volumeBounds) > 3
  /\ volumeBounds[3].type = "Cylinder"
  /\ volumeBounds[1].type = "Disc"
  /\ Len(m_boundarySurfaces) > 3

\* C20: the boundary surfaces are as many as the surfaces of the
\* decomposition and in their order, each wrapping the surface at its
\* index; from no surface at all comes the empty sequence
C20_OnePerSurface ==
  constructed =>
    /\ Len(m_boundarySurfaces) = Len(volumeBounds)
    /\ \A i \in DOMAIN volumeBounds :
         m_boundarySurfaces[i].surface = volumeBounds[i]
    /\ volumeBounds = << >> => m_boundarySurfaces = << >>

\* a volume was constructed from several surfaces
C20_Witness ==
  /\ constructed
  /\ Len(volumeBounds) >= 3
  /\ m_boundarySurfaces # << >>

\* a volume was constructed from bounds without a surface
C20_WitnessEmpty ==
  /\ constructed
  /\ volumeBounds = << >>

(***************************************************************************)
(* C21: the indices are read-only once the fit is initialized              *)
(***************************************************************************)
\* C21: in every invocation after the one that initialized the fit,
\* accessIndex, fittedStates and the measurement surfaces handed to the
\* navigation are left as they are, whatever surface is reported and
\* whatever the updator returns
C21_IndexReadOnly ==
  [][(pc = "actor" /\ initCalls >= 1) =>
       /\ accessIndex' = accessIndex
       /\ fittedStates' = fittedStates
       /\ externalSurfaces' = externalSurfaces]_vars

\* an invocation after the first has updated a state of an index with two
\* surfaces
C21_Witness ==
  /\ Returned
  /\ calls >= 2
  /\ updPar # NotSet
  /\ Cardinality(DOMAIN accessIndex) = 2
  /\ Len(externalSurfaces) = 2

(***************************************************************************)
(* C22: every boundary surface belongs to one side                         *)
(***************************************************************************)
\* C22: every boundary surface of a constructed volume has exactly one of
\* its inner and outer references set, and the one that is set is the
\* volume; none has both unset or both set
C22_OneSideAttributed ==
  constructed =>
    \A i \in DOMAIN m_boundarySurfaces :
      LET b == m_boundarySurfaces[i]
      IN /\ (b.inner = Null) # (b.outer = Null)
         /\ b.inner # Null => b.inner = this
         /\ b.outer # Null => b.outer = this

\* a volume was constructed whose bounds have a cylinder at index 3 and
\* another one before it
C22_Witness ==
  /\ constructed
  /\ CylinderAtThree
  /\ volumeBounds[2].type = "Cylinder"
  /\ Len(m_boundarySurfaces) = Len(volumeBounds)

(***************************************************************************)
(* C23: the order of the steps of one invocation                           *)
(***************************************************************************)
\* initialization comes before the surface is looked at: a measurement
\* surface reported in the very first invocation is updated and counted in
\* that invocation
FirstInvocationUpdates ==
  (Returned /\ calls = 1 /\ currentSurface \in DOMAIN accessIndex) =>
    /\ initCalls = 1
    /\ bindCalls = 1
    /\ updatorCalls = 1
    /\ processedStates = 1

\* the update comes before the termination check: the invocation that
\* processes the last state signals termination itself
LastInvocationStops ==
  (Returned /\ boundCov # NoCov /\ processedStates = Total) => targetReached

\* C23: initialization precedes the surface query and the update precedes
\* the termination check, so that a measurement surface reported in the
\* first invocation is updated and counted in it, and the invocation that
\* processes the last state signals termination and not a later one
C23_OrderOfSteps ==
  /\ FirstInvocationUpdates
  /\ LastInvocationStops

(***************************************************************************)
(* C24: the layout of GeometryID                                           *)
(***************************************************************************)
\* every bit of the 64 is in the mask of exactly one subfield
MasksPartition ==
  \A k \in 0..(Width - 1) :
    Cardinality({f \in DOMAIN Fields : BitAt(Fields[f].mask, k) = 1}) = 1

\* the shift of every subfield is the place of the lowest bit of its mask
ShiftsAtLowestBit ==
  \A f \in DOMAIN Fields :
    /\ BitAt(Fields[f].mask, Fields[f].shift) = 1
    /\ \A k \in 0..(Fields[f].shift - 1) : BitAt(Fields[f].mask, k) = 0

\* C24: the six masks are pairwise disjoint and cover the 64 bits, every
\* shift is the place of the lowest set bit of its mask, and an identifier
\* made of a number x that fits subfield f, shifted left by the shift of f,
\* reads x through the mask and shift of f and 0 through those of every
\* other subfield
C24_Layout ==
  /\ MasksPartition
  /\ ShiftsAtLowestBit
  /\ geoLast.op = "build" =>
       /\ geoLast.x <= FieldMax(geoLast.field)
       /\ value(m_value, Fields[geoLast.field].mask,
                Fields[geoLast.field].shift) = FromNat(geoLast.x)
       /\ \A g \in DOMAIN Fields \ {geoLast.field} :
            value(m_value, Fields[g].mask, Fields[g].shift) = Zero

\* an identifier was made of the highest number of the layer subfield
C24_Witness ==
  /\ geoLast.op = "build"
  /\ geoLast.field = "layer"
  /\ geoLast.x = 255
  /\ m_value = layer_mask

(***************************************************************************)
(* C25: validity and ordering of Identifier                                *)
(***************************************************************************)
\* the identifier holds a 0 bit somewhere
DiffersFromAllOnes(id) == \E k \in 0..(Width - 1) : BitAt(id, k) = 0

\* what =, |= and &= leave in the identifier, bit by bit
StoredAfter(last, id) ==
  \A k \in 0..(Width - 1) :
    BitAt(id, k) =
      CASE last.op = "assign" -> BitAt(last.value, k)
        [] last.op = "or" ->
             IF BitAt(last.before, k) = 1 THEN 1 ELSE BitAt(last.value, k)
        [] last.op = "and" ->
             IF BitAt(last.before, k) = 0 THEN 0 ELSE BitAt(last.value, k)

\* C25: a default-constructed Identifier holds the all-ones value and
\* is_valid() is false for it; is_valid() is true exactly when the stored
\* value differs from all-ones, also after =, |= and &= (which store the
\* value given, the bitwise or and the bitwise and), so that |= with
\* all-ones makes any identifier invalid; ==, !=, <, >, <=, >= are the
\* unsigned comparison of the stored values
C25_ValidityAndOrdering ==
  /\ idLast # << >> =>
       /\ idLast.op = "default" => \A k \in 0..(Width - 1) : BitAt(m_id, k) = 1
       /\ idLast.op \in {"assign", "or", "and"} => StoredAfter(idLast, m_id)
       /\ idLast.op = "is_valid" =>
            /\ idLast.result = DiffersFromAllOnes(m_id)
            /\ idLast.after.op = "default" => ~idLast.result
            /\ (idLast.after.op = "or" /\ idLast.after.value = AllOnes) =>
                 ~idLast.result
       /\ idLast.op = "compare" =>
            /\ idLast.eq = (\A k \in 0..(Width - 1) :
                              BitAt(idLast.id, k) = BitAt(idLast.other, k))
            /\ idLast.ne = ~idLast.eq
            /\ idLast.lt = RawLess(idLast.id, idLast.other)
            /\ idLast.gt = RawLess(idLast.other, idLast.id)
            /\ idLast.le = ~RawLess(idLast.other, idLast.id)
            /\ idLast.ge = ~RawLess(idLast.id, idLast.other)

\* a valid identifier was or-ed with all-ones and then asked whether it is
\* valid
C25_Witness ==
  /\ idLast # << >>
  /\ idLast.op = "is_valid"
  /\ idLast.after.op = "or"
  /\ idLast.after.value = AllOnes
  /\ idLast.after.before = One
  /\ ~idLast.result

(***************************************************************************)
(* C26: the bound of the counter                                           *)
(***************************************************************************)
\* C26: processedStates is at most the number of entries of accessIndex and
\* at most the length of fittedStates in every state of a fit, whatever
\* surfaces are reported and however often; it never decreases and grows by
\* at most 1 per invocation
C26_CounterBound ==
  [][/\ processedStates' <= Cardinality(DOMAIN accessIndex')
     /\ processedStates' <= Len(fittedStates')
     /\ processedStates' >= processedStates
     /\ processedStates' <= processedStates + 1]_vars

(***************************************************************************)
(* C27: accessIndex is well formed                                         *)
(***************************************************************************)
\* the states of the trajectory with a resolved layer
ResolvedStates == {i \in 1..Total : Resolved(SurfaceAt(i))}

\* two states with a resolved layer lie on one surface
SharedSurface ==
  \E i, j \in ResolvedStates : i # j /\ SurfaceAt(i) = SurfaceAt(j)

\* C27: after initialize and in every later state, every value of
\* accessIndex is a position of fittedStates, the state at that position
\* lives on the key surface and distinct surfaces map to distinct
\* positions; when two states of the trajectory share one surface, the
\* entry of that surface holds the position of the later state and
\* accessIndex has fewer entries than there are resolved states
C27_IndexWellFormed ==
  initCalls >= 1 =>
    /\ \A s \in DOMAIN accessIndex :
         /\ accessIndex[s] \in 0..(Len(fittedStates) - 1)
         /\ getSurface(fittedStates[accessIndex[s] + 1]) = s
    /\ \A s, t \in DOMAIN accessIndex :
         s # t => accessIndex[s] # accessIndex[t]
    /\ \A i, j \in ResolvedStates :
         (i < j /\ SurfaceAt(i) = SurfaceAt(j)) =>
           /\ SurfaceAt(j) \in DOMAIN accessIndex
           /\ accessIndex[SurfaceAt(j)] >= j - 1
    /\ SharedSurface =>
         Cardinality(DOMAIN accessIndex) < Cardinality(ResolvedStates)

\* two states on one surface were indexed, and the surface was reported and
\* its state updated
C27_Witness ==
  /\ Returned
  /\ initCalls = 1
  /\ Total = 2
  /\ SharedSurface
  /\ Cardinality(DOMAIN accessIndex) = 1
  /\ currentSurface \in DOMAIN accessIndex
  /\ accessIndex[currentSurface] = 1
  /\ processedStates = 1

(***************************************************************************)
(* C28: TERMINATED is absorbing                                            *)
(***************************************************************************)
\* the actor is TERMINATED: it was initialized and an invocation ended with
\* processedStates equal to the total, which is where termination is
\* signalled
Terminated == initCalls >= 1 /\ processedStates = Total

\* C28: once the actor is TERMINATED, a further invocation, whatever surface
\* is reported, leaves processedStates and the stepper's kinematic state
\* unchanged, calls neither bind nor the updator and does not initialize
\* again, and the actor stays TERMINATED
C28_TerminatedAbsorbing ==
  [][(pc = "actor" /\ Terminated) =>
       /\ processedStates' = processedStates
       /\ stepping' = stepping
       /\ bindCalls' = bindCalls
       /\ updatorCalls' = updatorCalls
       /\ initCalls' = initCalls
       /\ Terminated']_vars

(***************************************************************************)
(* C29: the empty trajectory                                               *)
(***************************************************************************)
\* the first invocation of a fit of no states leaves both indices empty,
\* updates nothing and counts nothing
EmptyFitInert ==
  (Returned /\ calls = 1 /\ Total = 0) =>
    /\ accessIndex = EmptyMap
    /\ externalSurfaces = << >>
    /\ bindCalls = 0
    /\ updatorCalls = 0
    /\ processedStates = 0

\* the first invocation of a fit of no states signals termination
EmptyFitStops ==
  (Returned /\ calls = 1 /\ Total = 0) => targetReached

\* C29: for a trajectory of zero states the first invocation leaves
\* accessIndex and the measurement surfaces empty, performs no update, ends
\* with processedStates equal to 0, the total, and signals termination
C29_EmptyTrajectory ==
  /\ EmptyFitInert
  /\ EmptyFitStops

=============================================================================
